---- MODULE Spec2Model ----
(***************************************************************************)
(* Model of baseline/run_and_compare.py: the clustering-accuracy           *)
(* evaluators (accuracy_metrics, purity_metric, collapse_pure_clusters)    *)
(* and the batch loop run_all that drives them.                            *)
(*                                                                         *)
(* Label sequences are TLA+ sequences of strings (1-based; Python index i  *)
(* is i+1 here).  A Counter / dict is a function whose DOMAIN is the key   *)
(* set.  A Python float quotient n / d is kept exact as the record         *)
(* [num |-> n, den |-> d] and compared by cross-multiplication.            *)
(***************************************************************************)
EXTENDS Integers, Sequences, FiniteSets, TLC

VARIABLES truth, pred, call, ret,
          method_i, dataset_i, results, out, hasSetting, dirExists, pc

vars == <<truth, pred, call, ret,
          method_i, dataset_i, results, out, hasSetting, dirExists, pc>>

evalVars == <<call, ret>>
runVars == <<method_i, dataset_i, results, out, hasSetting, dirExists, pc>>

\* ------------------------------------------------------------------ bounds
MaxLen == 4
RunMaxLen == 1

\* Label alphabet of the evaluator inputs.  The third label is literally the
\* text the collapser produces for ground-truth label "A".
Labels == {"A", "B", "__PURE__#A"}
\* Labels of the sequences run_all loads: ground truth over RunTruthLabels, a
\* parser's output over RunPredLabels.
RunTruthLabels == {"A", "B"}
RunPredLabels == {"A"}

SeqsUpTo(S, n) == UNION {[1..k -> S] : k \in 0..n}

\* ------------------------------------------------------------- arithmetic
Ratio(n, d) == [num |-> n, den |-> d]
Zero == Ratio(0, 1)
One == Ratio(1, 1)
IsZero(a) == a.num = 0
REq(a, b) == a.num * b.den = b.num * a.den
RLeq(a, b) == a.num * b.den <= b.num * a.den
RMul(a, b) == Ratio(a.num * b.num, a.den * b.den)
RAdd(a, b) == Ratio(a.num * b.den + b.num * a.den, a.den * b.den)
RDiv(a, b) == Ratio(a.num * b.den, a.den * b.num)

Min(a, b) == IF a <= b THEN a ELSE b

RECURSIVE SumFn(_, _)
SumFn(f, S) ==
    IF S = {} THEN 0
    ELSE LET x == CHOOSE y \in S : TRUE IN f[x] + SumFn(f, S \ {x})

RECURSIVE MaxFn(_, _)
MaxFn(f, S) ==
    LET x == CHOOSE y \in S : TRUE
    IN IF S = {x} THEN f[x]
       ELSE LET m == MaxFn(f, S \ {x}) IN IF f[x] >= m THEN f[x] ELSE m

\* ------------------------------------------------------- accuracy_metrics
\* collections.Counter over the elements seq[i], i \in idxs
CounterAt(seq, idxs) ==
    [l \in {seq[i] : i \in idxs} |-> Cardinality({i \in idxs : seq[i] = l})]

Counter(seq) == CounterAt(seq, 1..Len(seq))

\* mutation of comb2: the halving is dropped
comb2_NoHalving(n) == IF n < 2 THEN 0 ELSE n * (n - 1)

comb2(n) == IF n < 2 THEN 0 ELSE (n * (n - 1)) \div 2

\* sum(comb2(c) for c in counts.values())
SumComb2(counts) ==
    SumFn([k \in DOMAIN counts |-> comb2(counts[k])], DOMAIN counts)

real_pairs(truth_) == SumComb2(Counter(truth_))
parsed_pairs(pred_) == SumComb2(Counter(pred_))

\* idx_by_pred: predicted label -> the indices carrying it
idx_by_pred(pred_) ==
    [p \in {pred_[i] : i \in 1..Len(pred_)} |->
        {i \in 1..Len(pred_) : pred_[i] = p}]

\* truth[i] for an index of pred beyond the end of truth raises IndexError
IndexError(truth_, pred_) == \E i \in 1..Len(pred_) : i > Len(truth_)

gt_counts(truth_, idxs) == CounterAt(truth_, idxs)

\* truth_counts.get(gt_id, 0)
CounterGet(counts, k) == IF k \in DOMAIN counts THEN counts[k] ELSE 0

\* mutation of accurate_pairs: the accumulation sits inside the
\* `len(gt_counts) == 1` branch, so mixed predicted groups add nothing
accurate_pairs_PureOnly(truth_, pred_) ==
    LET groups == idx_by_pred(pred_)
        pairs(p) ==
            LET gc == gt_counts(truth_, groups[p])
            IN IF Cardinality(DOMAIN gc) = 1 THEN SumComb2(gc) ELSE 0
    IN SumFn([p \in DOMAIN groups |-> pairs(p)], DOMAIN groups)

accurate_pairs(truth_, pred_) ==
    LET groups == idx_by_pred(pred_)
    IN SumFn([p \in DOMAIN groups |-> SumComb2(gt_counts(truth_, groups[p]))],
             DOMAIN groups)

\* mutation of accurate_events: the size comparison is dropped and the size of
\* the ground-truth cluster is added for every pure predicted group
accurate_events_NoSizeCheck(truth_, pred_) ==
    LET groups == idx_by_pred(pred_)
        truth_counts == Counter(truth_)
        events(p) ==
            LET gc == gt_counts(truth_, groups[p])
            IN IF Cardinality(DOMAIN gc) = 1
               THEN CounterGet(truth_counts, CHOOSE g \in DOMAIN gc : TRUE)
               ELSE 0
    IN SumFn([p \in DOMAIN groups |-> events(p)], DOMAIN groups)

accurate_events(truth_, pred_) ==
    LET groups == idx_by_pred(pred_)
        truth_counts == Counter(truth_)
        events(p) ==
            LET gc == gt_counts(truth_, groups[p])
            IN IF Cardinality(DOMAIN gc) = 1
               THEN LET gt_id == CHOOSE g \in DOMAIN gc : TRUE
                    IN IF Cardinality(groups[p]) = CounterGet(truth_counts, gt_id)
                       THEN Cardinality(groups[p]) ELSE 0
               ELSE 0
    IN SumFn([p \in DOMAIN groups |-> events(p)], DOMAIN groups)

\* mutation of SafeDiv: a zero denominator yields 1
SafeDiv_OneOnZero(n, d) == IF d = 0 THEN One ELSE Ratio(n, d)

\* 0 if den == 0 else num / den
SafeDiv(n, d) == IF d = 0 THEN Zero ELSE Ratio(n, d)

\* mutation of F1: the factor 2 is dropped
F1_NoFactor(precision, recall) ==
    IF IsZero(precision) /\ IsZero(recall) THEN Zero
    ELSE RDiv(RMul(precision, recall), RAdd(precision, recall))

F1(precision, recall) ==
    IF IsZero(precision) /\ IsZero(recall) THEN Zero
    ELSE RDiv(RMul(Ratio(2, 1), RMul(precision, recall)), RAdd(precision, recall))

accuracy_metrics(truth_, pred_) ==
    IF IndexError(truth_, pred_) THEN [status |-> "raised", exc |-> "IndexError"]
    ELSE LET ap == accurate_pairs(truth_, pred_)
             precision == SafeDiv(ap, parsed_pairs(pred_))
             recall == SafeDiv(ap, real_pairs(truth_))
         IN [status |-> "ok",
             GA |-> F1(precision, recall),
             GA_precision |-> precision,
             GA_recall |-> recall,
             PA |-> SafeDiv(accurate_events(truth_, pred_), Len(truth_))]

\* ---------------------------------------------------------- purity_metric
\* zip(a, b) stops at the shorter argument
ZipLen(a, b) == Min(Len(a), Len(b))

\* counts[o] += 1 for every zipped (b, o)
base_to_other(base_ids, other_ids) ==
    LET n == ZipLen(base_ids, other_ids)
    IN [b \in {base_ids[i] : i \in 1..n} |->
          CounterAt(other_ids, {i \in 1..n : base_ids[i] = b})]

\* mutation of purity_metric: top_sum = max(top_sum, top) instead of top_sum += top
purity_metric_MaxTop(base_ids, other_ids) ==
    LET bto == base_to_other(base_ids, other_ids)
        total_sum == SumFn([b \in DOMAIN bto |-> SumFn(bto[b], DOMAIN bto[b])],
                           DOMAIN bto)
        tops == [b \in DOMAIN bto |-> MaxFn(bto[b], DOMAIN bto[b])]
        top_sum == IF DOMAIN bto = {} THEN 0 ELSE MaxFn(tops, DOMAIN bto)
    IN [status |-> "ok", value |-> SafeDiv(top_sum, total_sum)]

purity_metric(base_ids, other_ids) ==
    LET bto == base_to_other(base_ids, other_ids)
        total_sum == SumFn([b \in DOMAIN bto |-> SumFn(bto[b], DOMAIN bto[b])],
                           DOMAIN bto)
        top_sum == SumFn([b \in DOMAIN bto |->
                             IF DOMAIN bto[b] = {} THEN 0
                             ELSE MaxFn(bto[b], DOMAIN bto[b])],
                         DOMAIN bto)
    IN [status |-> "ok", value |-> SafeDiv(top_sum, total_sum)]

\* ------------------------------------------------- collapse_pure_clusters
gt_by_pred(truth_, pred_) ==
    LET n == ZipLen(pred_, truth_)
    IN [p \in {pred_[i] : i \in 1..n} |->
          {truth_[i] : i \in {j \in 1..n : pred_[j] = p}}]

\* gt_by_pred.get(p, set())
GtsOf(truth_, pred_, p) ==
    LET g == gt_by_pred(truth_, pred_)
    IN IF p \in DOMAIN g THEN g[p] ELSE {}

\* f"__PURE__#{only_gt}"
PureLabel(only_gt) == "__PURE__#" \o only_gt

\* mapping[p]
MapLabel(truth_, pred_, p) ==
    LET gts == GtsOf(truth_, pred_, p)
    IN IF Cardinality(gts) = 1
       THEN PureLabel(CHOOSE g \in gts : TRUE)
       ELSE p

pure_mask(truth_, pred_) ==
    [i \in 1..Len(pred_) |-> Cardinality(GtsOf(truth_, pred_, pred_[i])) = 1]

collapse_pure_clusters(truth_, pred_) ==
    LET mask == pure_mask(truth_, pred_)
    IN [status |-> "ok",
        merged_pred |-> [i \in 1..Len(pred_) |-> MapLabel(truth_, pred_, pred_[i])],
        pure_coverage |->
            SafeDiv(Cardinality({i \in 1..Len(pred_) : mask[i]}), Len(pred_))]

\* ------------------------------------------- evaluator calls (Spec)
NoRet == [status |-> "none"]

InitRun ==
    /\ method_i = 1
    /\ dataset_i = 1
    /\ results = <<>>
    /\ out = <<>>
    /\ hasSetting = {}
    /\ dirExists = {}
    /\ pc = "idle"

Init ==
    /\ truth \in SeqsUpTo(Labels, MaxLen)
    /\ pred \in SeqsUpTo(Labels, MaxLen)
    /\ call = "idle"
    /\ ret = NoRet
    /\ InitRun

CallAccuracyMetrics ==
    /\ call = "idle"
    /\ call' = "accuracy_metrics"
    /\ ret' = accuracy_metrics(truth, pred)
    /\ UNCHANGED <<truth, pred>>
    /\ UNCHANGED runVars

\* metrics["predPure"] = purity_metric(pred, truth)
CallPredPure ==
    /\ call = "idle"
    /\ call' = "predPure"
    /\ ret' = purity_metric(pred, truth)
    /\ UNCHANGED <<truth, pred>>
    /\ UNCHANGED runVars

\* metrics["gtPure"] = purity_metric(truth, pred)
CallGtPure ==
    /\ call = "idle"
    /\ call' = "gtPure"
    /\ ret' = purity_metric(truth, pred)
    /\ UNCHANGED <<truth, pred>>
    /\ UNCHANGED runVars

CallCollapsePureClusters ==
    /\ call = "idle"
    /\ call' = "collapse_pure_clusters"
    /\ ret' = collapse_pure_clusters(truth, pred)
    /\ UNCHANGED <<truth, pred>>
    /\ UNCHANGED runVars

\* friendly = accuracy_metrics(truth, friendly_pred)
CallAccuracyOnMerged ==
    /\ call = "collapse_pure_clusters"
    /\ call' = "friendly"
    /\ ret' = accuracy_metrics(truth, ret.merged_pred)
    /\ UNCHANGED <<truth, pred>>
    /\ UNCHANGED runVars

Next ==
    \/ CallAccuracyMetrics
    \/ CallPredPure
    \/ CallGtPure
    \/ CallCollapsePureClusters
    \/ CallAccuracyOnMerged

Spec == Init /\ [][Next]_vars

\* ------------------------------------------------- run_all (SpecRunAll)
\* the methods and datasets run_all is called with; "SLCT" is not a key of
\* runners (its entry is commented out)
Methods == <<"Drain", "SLCT", "Spell">>
Datasets == <<"HDFS", "Apache">>
Runners == {"Drain", "Spell", "IPLoM", "LenMa", "LogMine"}

Combos == {<<m, d>> : m \in {Methods[i] : i \in 1..Len(Methods)} \cap Runners,
                      d \in {Datasets[j] : j \in 1..Len(Datasets)}}

\* exceptions raised inside the try block before the length check:
\* parser.parse, get_ground_truth (FileNotFoundError), load_event_ids (ValueError)
Failures == {<<"parse failed">>, <<"No structured ground-truth CSV">>,
             <<"No EventId column found">>}

InitRunAll ==
    /\ truth = <<>>
    /\ pred = <<>>
    /\ call = "idle"
    /\ ret = NoRet
    /\ method_i = 1
    /\ dataset_i = 1
    /\ results = <<>>
    /\ out = <<>>
    /\ hasSetting \in SUBSET Combos
    /\ dirExists \in SUBSET {Datasets[j] : j \in 1..Len(Datasets)}
    /\ pc = "loop"

InLoop == pc = "loop" /\ method_i <= Len(Methods)
method == Methods[method_i]
dataset == Datasets[dataset_i]

\* next iteration of `for dataset in datasets`, falling through to the next method
NextDataset ==
    IF dataset_i < Len(Datasets)
    THEN /\ dataset_i' = dataset_i + 1
         /\ method_i' = method_i
    ELSE /\ dataset_i' = 1
         /\ method_i' = method_i + 1

ErrorRecord(exc) == [method |-> method, dataset |-> dataset, error |-> exc]

MetricsRecord(t, p) ==
    LET metrics == accuracy_metrics(t, p)
        collapsed == collapse_pure_clusters(t, p)
        friendly == accuracy_metrics(t, collapsed.merged_pred)
    IN [method |-> method,
        dataset |-> dataset,
        GA |-> metrics.GA,
        GA_precision |-> metrics.GA_precision,
        GA_recall |-> metrics.GA_recall,
        PA |-> metrics.PA,
        predPure |-> purity_metric(p, t).value,
        gtPure |-> purity_metric(t, p).value,
        GA_friendly |-> friendly.GA,
        GA_friendly_precision |-> friendly.GA_precision,
        GA_friendly_recall |-> friendly.GA_recall,
        PA_friendly |-> friendly.PA,
        pureCoverage |-> collapsed.pure_coverage,
        pred_file |-> <<"output", method, dataset>>,
        gt_file |-> <<"datasets", dataset>>]

\* if method not in runners: continue
SkipUnknownMethod ==
    /\ InLoop
    /\ method \notin Runners
    /\ out' = Append(out, <<"skip", method>>)
    /\ method_i' = method_i + 1
    /\ dataset_i' = 1
    /\ UNCHANGED <<truth, pred, results, hasSetting, dirExists, pc>>
    /\ UNCHANGED evalVars

\* if setting is None: continue
SkipNoSetting ==
    /\ InLoop
    /\ method \in Runners
    /\ <<method, dataset>> \notin hasSetting
    /\ out' = Append(out, <<"skip", method, dataset>>)
    /\ NextDataset
    /\ UNCHANGED <<truth, pred, results, hasSetting, dirExists, pc>>
    /\ UNCHANGED evalVars

\* if not dataset_dir.exists(): continue
SkipMissingDir ==
    /\ InLoop
    /\ method \in Runners
    /\ <<method, dataset>> \in hasSetting
    /\ dataset \notin dirExists
    /\ out' = Append(out, <<"skip", dataset>>)
    /\ NextDataset
    /\ UNCHANGED <<truth, pred, results, hasSetting, dirExists, pc>>
    /\ UNCHANGED evalVars

Runnable ==
    /\ InLoop
    /\ method \in Runners
    /\ <<method, dataset>> \in hasSetting
    /\ dataset \in dirExists

\* an exception before truth and pred are both loaded, caught by `except Exception`
IterRaise(exc) ==
    /\ Runnable
    /\ results' = Append(results, ErrorRecord(exc))
    /\ out' = Append(out, <<"fail", method, dataset>>)
    /\ NextDataset
    /\ UNCHANGED <<truth, pred, hasSetting, dirExists, pc>>
    /\ UNCHANGED evalVars

\* mutation of IterLoaded: the ValueError of the length check is not caught
IterLoaded_Uncaught(t, p) ==
    /\ Runnable
    /\ truth' = t
    /\ pred' = p
    /\ IF Len(t) # Len(p)
       THEN /\ pc' = "raised"
            /\ UNCHANGED <<results, out, method_i, dataset_i>>
       ELSE /\ results' = Append(results, MetricsRecord(t, p))
            /\ out' = Append(out, <<"ok", method, dataset>>)
            /\ NextDataset
            /\ pc' = pc
    /\ UNCHANGED <<hasSetting, dirExists>>
    /\ UNCHANGED evalVars

\* truth and pred loaded: the length check, then the metrics
IterLoaded(t, p) ==
    /\ Runnable
    /\ truth' = t
    /\ pred' = p
    /\ IF Len(t) # Len(p)
       THEN /\ results' = Append(results,
                                 ErrorRecord(<<"Length mismatch", Len(t), Len(p)>>))
            /\ out' = Append(out, <<"fail", method, dataset>>)
       ELSE /\ results' = Append(results, MetricsRecord(t, p))
            /\ out' = Append(out, <<"ok", method, dataset>>)
    /\ NextDataset
    /\ pc' = pc
    /\ UNCHANGED <<hasSetting, dirExists>>
    /\ UNCHANGED evalVars

\* return results
Return ==
    /\ pc = "loop"
    /\ method_i > Len(Methods)
    /\ pc' = "done"
    /\ UNCHANGED <<truth, pred, method_i, dataset_i, results, out, hasSetting, dirExists>>
    /\ UNCHANGED evalVars

LoadedTruth == SeqsUpTo(RunTruthLabels, RunMaxLen)
LoadedPred == SeqsUpTo(RunPredLabels, RunMaxLen)

NextRunAll ==
    \/ SkipUnknownMethod
    \/ SkipNoSetting
    \/ SkipMissingDir
    \/ \E exc \in Failures : IterRaise(exc)
    \/ \E t \in LoadedTruth, p \in LoadedPred : IterLoaded(t, p)
    \/ Return

SpecRunAll == InitRunAll /\ [][NextRunAll]_vars

\* ------------------------------------------------------------------ claims
EqualLength == Len(truth) = Len(pred)
InUnit(r) == r.den > 0 /\ 0 <= r.num /\ r.num <= r.den
HasRepeat(seq) == \E i, j \in 1..Len(seq) : i # j /\ seq[i] = seq[j]

\* direct enumeration of unordered index pairs {i, j}, i # j
IndexPairs(n) == {ij \in (1..n) \X (1..n) : ij[1] < ij[2]}
PairsSame(seq) ==
    Cardinality({ij \in IndexPairs(Len(seq)) : seq[ij[1]] = seq[ij[2]]})
PairsSameBoth(a, b) ==
    Cardinality({ij \in IndexPairs(Len(a)) :
                    a[ij[1]] = a[ij[2]] /\ b[ij[1]] = b[ij[2]]})
ClusterOf(seq, i) == {j \in 1..Len(seq) : seq[j] = seq[i]}
ExactEvents(a, b) ==
    Cardinality({i \in 1..Len(b) : ClusterOf(b, i) = ClusterOf(a, i)})

\* C1 (as stated): for every non-empty x, accuracy_metrics(x, x) has GA = 1.0
\* and PA = 1.0, also when every label of x occurs once.
C1_Identity_Original ==
    (call = "accuracy_metrics" /\ truth = pred /\ Len(truth) > 0)
        => (ret.status = "ok" /\ REq(ret.GA, One) /\ REq(ret.PA, One))

\* C1 (amended): for every non-empty x, accuracy_metrics(x, x) has PA = 1.0;
\* GA = 1.0 when some label of x occurs at least twice, and GA = 0 when every
\* label of x occurs exactly once (no pair exists, both denominators are 0).
C1_Identity ==
    (call = "accuracy_metrics" /\ truth = pred /\ Len(truth) > 0)
        => /\ ret.status = "ok"
           /\ REq(ret.PA, One)
           /\ HasRepeat(truth) => REq(ret.GA, One)
           /\ ~HasRepeat(truth) => IsZero(ret.GA)

C1_Witness ==
    /\ call = "accuracy_metrics"
    /\ truth = pred
    /\ Len(truth) = MaxLen
    /\ HasRepeat(truth)
    /\ Cardinality({truth[i] : i \in 1..Len(truth)}) > 1
    /\ REq(ret.GA, One)

\* C2 (as stated): collapse monotonicity: for equal-length truth and pred the
\* PA of accuracy_metrics(truth, merged_pred) is at least the PA of
\* accuracy_metrics(truth, pred).
C2_CollapseMonotone ==
    (call = "friendly" /\ EqualLength)
        => (ret.status = "ok" /\ RLeq(accuracy_metrics(truth, pred).PA, ret.PA))

\* a predicted label whose lines carry exactly one distinct truth label
IsPure(p) == Cardinality(GtsOf(truth, pred, p)) = 1

\* C3 (as stated): merged labels never collide: merged_pred[i] = merged_pred[j]
\* iff pred[i], pred[j] are both pure with the same sole truth label, or
\* pred[i] = pred[j] is an impure label.
C3_NoCollision ==
    (call = "collapse_pure_clusters" /\ EqualLength)
        => \A i, j \in 1..Len(pred) :
              (ret.merged_pred[i] = ret.merged_pred[j])
              <=> \/ /\ IsPure(pred[i])
                     /\ IsPure(pred[j])
                     /\ GtsOf(truth, pred, pred[i]) = GtsOf(truth, pred, pred[j])
                  \/ /\ pred[i] = pred[j]
                     /\ ~IsPure(pred[i])

\* C4 (as stated): with len(truth) # len(pred) a call of accuracy_metrics,
\* purity_metric or collapse_pure_clusters fails instead of returning a result.
C4_LengthMismatchFails ==
    (call \in {"accuracy_metrics", "predPure", "gtPure", "collapse_pure_clusters"}
        /\ ~EqualLength)
        => ret.status = "raised"

\* C6: for equal-length a and b the GA_precision of accuracy_metrics(a, b) is
\* the GA_recall of accuracy_metrics(b, a) and vice versa, and GA is the same.
C6_SwapSymmetry ==
    (call = "accuracy_metrics" /\ EqualLength)
        => LET swapped == accuracy_metrics(pred, truth)
           IN /\ ret.status = "ok"
              /\ swapped.status = "ok"
              /\ REq(ret.GA_precision, swapped.GA_recall)
              /\ REq(ret.GA_recall, swapped.GA_precision)
              /\ REq(ret.GA, swapped.GA)

C6_Witness ==
    /\ call = "accuracy_metrics"
    /\ EqualLength
    /\ ~IsZero(ret.GA_precision)
    /\ ~IsZero(ret.GA_recall)
    /\ ~REq(ret.GA_precision, ret.GA_recall)

\* C7: for equal-length inputs every metric lies in [0, 1]: GA, GA_precision,
\* GA_recall and PA (strict and friendly), both purities and pure_coverage;
\* accurate_pairs <= parsed_pairs, accurate_pairs <= real_pairs and
\* accurate_events <= N.
C7_UnitInterval ==
    EqualLength =>
        /\ call \in {"accuracy_metrics", "friendly"} =>
              /\ ret.status = "ok"
              /\ InUnit(ret.GA)
              /\ InUnit(ret.GA_precision)
              /\ InUnit(ret.GA_recall)
              /\ InUnit(ret.PA)
        /\ call = "accuracy_metrics" =>
              /\ accurate_pairs(truth, pred) <= parsed_pairs(pred)
              /\ accurate_pairs(truth, pred) <= real_pairs(truth)
              /\ accurate_events(truth, pred) <= Len(truth)
        /\ call \in {"predPure", "gtPure"} => InUnit(ret.value)
        /\ call = "collapse_pure_clusters" => InUnit(ret.pure_coverage)

C7_Witness ==
    /\ call = "friendly"
    /\ EqualLength
    /\ Len(truth) = MaxLen
    /\ ~IsZero(ret.GA)
    /\ ~REq(ret.GA, One)
    /\ ~IsZero(ret.PA)
    /\ ~REq(ret.PA, One)

\* C8: empty truth and pred give GA = GA_precision = GA_recall = PA = 0,
\* purity 0, an empty merged_pred and pure_coverage 0, nothing raising; and a
\* zero denominator (parsed_pairs, real_pairs) gives 0 for its metric.
C8_Degenerate ==
    /\ (truth = <<>> /\ pred = <<>>) =>
          /\ call # "idle" => ret.status = "ok"
          /\ call \in {"accuracy_metrics", "friendly"} =>
                /\ IsZero(ret.GA)
                /\ IsZero(ret.GA_precision)
                /\ IsZero(ret.GA_recall)
                /\ IsZero(ret.PA)
          /\ call \in {"predPure", "gtPure"} => IsZero(ret.value)
          /\ call = "collapse_pure_clusters" =>
                /\ ret.merged_pred = <<>>
                /\ IsZero(ret.pure_coverage)
    /\ (call = "accuracy_metrics" /\ EqualLength) =>
          /\ ret.status = "ok"
          /\ parsed_pairs(pred) = 0 => IsZero(ret.GA_precision)
          /\ real_pairs(truth) = 0 => IsZero(ret.GA_recall)

C8_Witness ==
    /\ truth = <<>>
    /\ pred = <<>>
    /\ call = "friendly"
    /\ ret.status = "ok"
    /\ IsZero(ret.GA)

\* C9 (as stated): purity_metric(a, a) = 1.0 for all a, the empty one included.
C9_PuritySelf_Original ==
    (call = "predPure" /\ truth = pred) => REq(ret.value, One)

\* C9 (amended): purity_metric(a, a) = 1.0 for every non-empty a; for the
\* empty sequence it is 0.
C9_PuritySelf ==
    (call \in {"predPure", "gtPure"} /\ truth = pred)
        => IF Len(truth) > 0 THEN REq(ret.value, One) ELSE IsZero(ret.value)

C9_Witness ==
    /\ call = "predPure"
    /\ truth = pred
    /\ Len(truth) = MaxLen
    /\ HasRepeat(truth)
    /\ Cardinality({truth[i] : i \in 1..Len(truth)}) > 1
    /\ REq(ret.value, One)

\* C10: for equal-length truth and pred, real_pairs, parsed_pairs and
\* accurate_pairs equal the direct count of unordered index pairs sharing a
\* truth label, a pred label, both; accurate_events is the number of positions
\* whose predicted cluster is exactly their ground-truth cluster.
C10_DirectEnumeration ==
    (call = "accuracy_metrics" /\ EqualLength)
        => /\ real_pairs(truth) = PairsSame(truth)
           /\ parsed_pairs(pred) = PairsSame(pred)
           /\ accurate_pairs(truth, pred) = PairsSameBoth(truth, pred)
           /\ accurate_events(truth, pred) = ExactEvents(truth, pred)
           /\ REq(ret.GA_precision,
                  SafeDiv(PairsSameBoth(truth, pred), PairsSame(pred)))
           /\ REq(ret.GA_recall,
                  SafeDiv(PairsSameBoth(truth, pred), PairsSame(truth)))
           /\ REq(ret.PA, SafeDiv(ExactEvents(truth, pred), Len(truth)))

C10_Witness ==
    /\ call = "accuracy_metrics"
    /\ EqualLength
    /\ Len(truth) = MaxLen
    /\ accurate_pairs(truth, pred) > 0
    /\ accurate_pairs(truth, pred) < parsed_pairs(pred)
    /\ accurate_events(truth, pred) > 0
    /\ accurate_events(truth, pred) < Len(truth)

\* position k of the (method, dataset) iteration order, 1-based
ComboMethod(k) == Methods[((k - 1) \div Len(Datasets)) + 1]
ComboDataset(k) == Datasets[((k - 1) % Len(Datasets)) + 1]
NotSkipped(k) ==
    /\ ComboMethod(k) \in Runners
    /\ <<ComboMethod(k), ComboDataset(k)>> \in hasSetting
    /\ ComboDataset(k) \in dirExists
\* number of combinations the loop has gone through
CombosDone == (method_i - 1) * Len(Datasets) + (dataset_i - 1)
RECURSIVE ProcessedKeys(_)
ProcessedKeys(k) ==
    IF k = 0 THEN <<>>
    ELSE IF NotSkipped(k)
         THEN Append(ProcessedKeys(k - 1), <<ComboMethod(k), ComboDataset(k)>>)
         ELSE ProcessedKeys(k - 1)
ErrorKeys == {"method", "dataset", "error"}
MetricKeys == {"GA", "GA_precision", "GA_recall", "PA", "predPure", "gtPure",
               "GA_friendly", "GA_friendly_precision", "GA_friendly_recall",
               "PA_friendly", "pureCoverage"}
IsMismatchRecord(r) ==
    /\ DOMAIN r = ErrorKeys
    /\ r.error[1] = "Length mismatch"

C5_Records ==
    /\ pc \in {"loop", "done"}
    /\ pc = "done" => CombosDone = Len(Methods) * Len(Datasets)
    /\ Len(results) = Len(ProcessedKeys(CombosDone))
    /\ \A i \in 1..Len(results) :
          /\ <<results[i].method, results[i].dataset>> = ProcessedKeys(CombosDone)[i]
          /\ \/ DOMAIN results[i] = ErrorKeys
             \/ MetricKeys \subseteq DOMAIN results[i]

C5_MismatchStep ==
    \A t \in LoadedTruth, p \in LoadedPred :
        (Len(t) # Len(p) /\ IterLoaded(t, p))
            => /\ results' = Append(results, ErrorRecord(<<"Length mismatch", Len(t), Len(p)>>))
               /\ DOMAIN results'[Len(results')] = ErrorKeys
               /\ pc' = "loop"
               /\ CombosDone' = CombosDone + 1

\* C5: in run_all a (method, dataset) combination whose truth and pred differ
\* in length never aborts the batch: the step appends exactly one record with
\* an error and no metric key and moves on to the next combination; results
\* holds exactly one record per non-skipped combination gone through, in
\* iteration order, and at return every combination has been gone through.
C5_MismatchDoesNotAbort == []C5_Records /\ [][C5_MismatchStep]_vars

C5_Witness ==
    /\ pc = "done"
    /\ Len(results) = 4
    /\ IsMismatchRecord(results[1])
    /\ DOMAIN results[2] # ErrorKeys
    /\ IsMismatchRecord(results[3])
    /\ DOMAIN results[4] # ErrorKeys

====
